---- MODULE Spec2Model ----
(***************************************************************************)
(* Model of osfmk/i386/rtclock.c: the nanotime tuple                       *)
(* {tsc_base, ns_base, scale, shift}, its calibration, the three           *)
(* power-management update paths, the commpage publication and the         *)
(* per-cpu timer deadline bookkeeping.                                     *)
(*                                                                         *)
(* Machine words.  TLC's integers are 32 bits wide, the program's are 32   *)
(* and 64 bits wide and its intermediate product is 96 bits wide, so a     *)
(* machine word is a little-endian sequence of 16-bit limbs: a uint64_t is *)
(* 4 limbs, a uint32_t is 2 limbs.  <<1000, 0, 0, 0>> is 1000 and          *)
(* <<37888, 30517, 0, 0>> is 30517 * 65536 + 37888 = 2,000,000,000.        *)
(* All arithmetic wraps at the width of its operands, as in C.             *)
(***************************************************************************)
EXTENDS Integers, Sequences, FiniteSets, TLC

----------------------------------------------------------------------------
(* Word arithmetic *)

Limb == 256 * 256

\* n (0 <= n < 2^31) as a word of k limbs
W(n, k) == [i \in 1..k |-> IF i = 1 THEN n % Limb
                           ELSE IF i = 2 THEN n \div Limb ELSE 0]

U64(n) == W(n, 4)
U32(n) == W(n, 2)

\* The word operators bind each operand once (x \in {a}) before using its
\* limbs, so that an operand is evaluated once however it is written.

\* zero-extension / truncation of a word to k limbs: the (uint32_t) and
\* (uint64_t) casts
Cast(a, k) ==
    CHOOSE r \in {[i \in 1..k |-> IF i <= Len(x) THEN x[i] ELSE 0] : x \in {a}} :
      TRUE

IsZero(a) == \A i \in 1..Len(a) : a[i] = 0

RECURSIVE AddC(_, _, _, _)
AddC(a, b, i, c) ==
    IF i > Len(a) THEN <<>>
    ELSE LET s == a[i] + b[i] + c
         IN  <<s % Limb>> \o AddC(a, b, i + 1, s \div Limb)

\* a + b modulo 2^(16 Len(a)); a and b have the same length
WAdd(a, b) == CHOOSE r \in {AddC(x, y, 1, 0) : x \in {a}, y \in {b}} : TRUE

RECURSIVE SubB(_, _, _, _)
SubB(a, b, i, br) ==
    IF i > Len(a) THEN <<>>
    ELSE LET d == a[i] - b[i] - br
         IN  <<(d + Limb) % Limb>> \o SubB(a, b, i + 1, IF d < 0 THEN 1 ELSE 0)

\* a - b modulo 2^(16 Len(a))
WSub(a, b) == CHOOSE r \in {SubB(x, y, 1, 0) : x \in {a}, y \in {b}} : TRUE

RECURSIVE LtFrom(_, _, _)
LtFrom(a, b, i) ==
    IF i = 0 THEN FALSE
    ELSE IF a[i] # b[i] THEN a[i] < b[i]
    ELSE LtFrom(a, b, i - 1)

\* unsigned a < b, a <= b
WLt(a, b) == \E x \in {a}, y \in {b} : LtFrom(x, y, Len(x))
WLe(a, b) == ~WLt(b, a)

\* a << 1 at the width of a
Shl1(a) == WAdd(a, a)

RECURSIVE Shl(_, _)
Shl(a, s) == IF s = 0 \/ Len(a) = 0 THEN a ELSE Shl(Shl1(a), s - 1)

\* a << 16k and a >> 16k by whole limbs, at the width of a
ShlLimbs(a, k) ==
    CHOOSE r \in {[i \in 1..Len(x) |-> IF i <= k THEN 0 ELSE x[i - k]] : x \in {a}} :
      TRUE
ShrLimbs(a, k) ==
    CHOOSE r \in {[i \in 1..Len(x) |-> IF i + k <= Len(x) THEN x[i + k] ELSE 0] :
                    x \in {a}} : TRUE

RECURSIVE MulC(_, _, _, _)
MulC(a, d, i, c) ==
    IF i > Len(a) THEN <<>>
    ELSE LET p == a[i] * d + c
         IN  <<p % Limb>> \o MulC(a, d, i + 1, p \div Limb)

\* a * d at the width of a, for a small factor d < 2^15
MulSmall(a, d) == CHOOSE r \in {MulC(x, d, 1, 0) : x \in {a}} : TRUE

\* a (64 bits) * s (32 bits) as a 96-bit word: the mulq of the conversion,
\* by the four bytes of s, most significant first
Mul64x32(a, s) ==
    LET x  == Cast(a, 6)
        b0 == s[1] % 256
        b1 == s[1] \div 256
        b2 == s[2] % 256
        b3 == s[2] \div 256
        r3 == MulSmall(x, b3)
        r2 == WAdd(MulSmall(r3, 256), MulSmall(x, b2))
        r1 == WAdd(MulSmall(r2, 256), MulSmall(x, b1))
    IN  WAdd(MulSmall(r1, 256), MulSmall(x, b0))

\* bit i (0 = least significant) of a
Bit(a, i) == (a[(i \div 16) + 1] \div (2 ^ (i % 16))) % 2

\* one step of binary long division: qr = <<quotient, remainder>> so far
\* (remainder one limb wider than the operands), next bit of n at position i
DivStep(qr, n, d, i) ==
    LET r2 == WAdd(Shl1(qr[2]), W(Bit(n, i), Len(qr[2])))
        ge == WLe(d, r2)
    IN  << WAdd(Shl1(qr[1]), W(IF ge THEN 1 ELSE 0, Len(qr[1]))),
           IF ge THEN WSub(r2, d) ELSE r2 >>

RECURSIVE DivFrom(_, _, _, _)
DivFrom(qr, n, d, i) ==
    IF i < 0 \/ Len(qr) # 2 THEN qr
    ELSE DivFrom(DivStep(qr, n, d, i), n, d, i - 1)

\* unsigned n / d rounded toward zero, d # 0, at the width of n
WDiv(n, d) ==
    LET k == Len(n)
    IN  DivFrom(<<W(0, k), W(0, k + 1)>>, n, Cast(d, k + 1), 16 * k - 1)[1]

----------------------------------------------------------------------------
(* Program constants *)

NSEC_PER_SEC == 1000000000

\* the tsc frequency at or below which the calibration inflates the rate
SLOW_TSC_THRESHOLD == 1000067800

\* the "no deadline" value of rtcDeadline: all ones
EndOfAllTime == <<Limb - 1, Limb - 1, Limb - 1, Limb - 1>>

\* granularity of the exported cpu speed
UI_CPUFREQ_ROUNDING_FACTOR == 10000000

\* the boot processor
master_cpu == 0

\* the bound asserted on rtc_clock_adjust's argument
ADJUST_LIMIT == 100

----------------------------------------------------------------------------
(* The nanotime tuple and the conversion *)

\* _pal_rtc_nanotime_store: the four fields of pal_rtc_nanotime_t.  scale is
\* a uint32_t (2 limbs); shift is a uint32_t that never exceeds 63 and is
\* kept as a number
pal_rtc_nanotime_store(tsc, nsec, scale, shift) ==
    [tsc_base |-> tsc, ns_base |-> nsec, scale |-> scale, shift |-> shift]

\* _rtc_tsc_to_nanoseconds: ((value << shift) * scale) >> 32, the shift left
\* at 64 bits, the product at 96 bits, the result its bits 32..95
rtc_tsc_to_nanoseconds(value, rntp) ==
    Cast(ShrLimbs(Mul64x32(Shl(value, rntp.shift), rntp.scale), 2), 4)

\* _rtc_nanotime_read at counter value tsc:
\* ns_base + tsc_to_nanoseconds(tsc - tsc_base)
rtc_nanotime_read_at(tsc, rntp) ==
    WAdd(rntp.ns_base, rtc_tsc_to_nanoseconds(WSub(tsc, rntp.tsc_base), rntp))

\* _rtc_nanotime_adjust: tsc_base += delta
rtc_nanotime_adjust(delta, rntp) ==
    [rntp EXCEPT !.tsc_base = WAdd(rntp.tsc_base, delta)]

----------------------------------------------------------------------------
(* rtc_set_timescale: the shift search and the scale *)

\* ShiftSearch with the loop test cycles < threshold
RECURSIVE ShiftSearchStrict(_, _, _)
ShiftSearchStrict(cycles, shift, threshold) ==
    IF WLt(cycles, threshold)
    THEN ShiftSearchStrict(Shl1(cycles), shift + 1, threshold)
    ELSE [cycles |-> cycles, shift |-> shift]

\* ShiftSearch with an if in place of the while: at most one doubling
ShiftSearchOnce(cycles, shift, threshold) ==
    IF WLe(cycles, threshold)
    THEN [cycles |-> Shl1(cycles), shift |-> shift + 1]
    ELSE [cycles |-> cycles, shift |-> shift]

\* while (cycles <= threshold) { shift++; cycles <<= 1; }
\* cycles # 0 (a zero rate never leaves the loop)
RECURSIVE ShiftSearch(_, _, _)
ShiftSearch(cycles, shift, threshold) ==
    IF WLe(cycles, threshold)
    THEN ShiftSearch(Shl1(cycles), shift + 1, threshold)
    ELSE [cycles |-> cycles, shift |-> shift]

\* the quotient rounded up instead of toward zero
ScaleQuotientCeil(cycles) ==
    WDiv(WAdd(ShlLimbs(U64(NSEC_PER_SEC), 2), WSub(cycles, U64(1))), cycles)

\* ((uint64_t)NSEC_PER_SEC << 32) / cycles, before the cast
ScaleQuotient(cycles) == WDiv(ShlLimbs(U64(NSEC_PER_SEC), 2), cycles)

\* rntp->scale = (uint32_t)(...); rntp->shift = shift
Timescale(freq, threshold) ==
    LET r == ShiftSearch(freq, 0, threshold)
    IN  [scale |-> Cast(ScaleQuotient(r.cycles), 2), shift |-> r.shift]

----------------------------------------------------------------------------
(* Bounds and input sets *)

\* the cycle counter advances at most this many times
MaxTicks == 2

\* rtc_clock_adjust is called at most this many times
MaxAdjusts == 1

\* rtc_sleep_wakeup is called at most this many times
MaxWakeups == 1

\* cycles the counter advances in one step of the environment
TickCycles == U64(100)

\* the counter value when the kernel starts (tsc_at_boot)
tsc_at_boot == U64(1000)

\* measured frequencies (tscFreq): 2 GHz (no shift) and zero; a slow 1 MHz
\* counter (shift 10) where deadlines are requested
BootFreqs == {U64(2000000000), U64(0)}
SlowBootFreqs == {U64(1000000)}

\* measured frequencies for the calibration alone: around the threshold,
\* slow counters down to 1 Hz, fast ones up to 2^63 Hz, and zero
CalFreqs ==
    {U64(0), U64(1), U64(2), U64(3), U64(500), U64(1000), U64(1000000),
     U64(999999999), U64(NSEC_PER_SEC), U64(NSEC_PER_SEC + 1),
     U64(SLOW_TSC_THRESHOLD - 1), U64(SLOW_TSC_THRESHOLD),
     U64(SLOW_TSC_THRESHOLD + 1), U64(2000000000), U64(2147483647),
     <<0, 0, 1, 0>>, <<Limb - 1, Limb - 1, Limb - 1, Limb - 1>>,
     <<0, 0, 0, Limb \div 2>>}

\* (base, tsc_base) candidates of rtc_clock_napped; a tsc_base may be a value
\* the counter has had or one it has not reached yet (tsc - tsc_base then
\* wraps modulo 2^64)
NapBases == {U64(0), U64(50)}
NapTscBases == {tsc_at_boot, WAdd(tsc_at_boot, TickCycles)}

\* candidates around the existing time, where rtc_clock_napped is run alone:
\* at 2 GHz the boot tuple reads 50 ns after one counter advance, so
\* (49, +100), (50, +100) and (51, +100) fall below, on and above it
NapBasesFine == {U64(0), U64(49), U64(50), U64(51), U64(100)}
NapTscBasesFine ==
    {tsc_at_boot, WAdd(tsc_at_boot, TickCycles),
     WAdd(tsc_at_boot, WAdd(TickCycles, TickCycles))}

\* arguments of rtc_clock_adjust: the largest allowed and one beyond it
AdjustDeltas == {U64(ADJUST_LIMIT - 1), U64(ADJUST_LIMIT)}

\* arguments of rtc_sleep_wakeup
WakeBases == {U64(30), U64(1000000)}

\* processors, and the deadlines they request
CPUS == {0, 1}
PopTimes == {U64(0), EndOfAllTime, U64(5000000)}

\* preemption levels and saved states of a timer interrupt: 64-bit states
\* (isf.cs, isf.rip) from rings 0 to 3 and 32-bit states (cs, eip) from rings
\* 0 and 3
PreemptionLevels == {0, 1}
SavedStates ==
    {[is64 |-> TRUE,  cs |-> 8,  ip |-> <<4096, 32768, 65535, 65535>>],
     [is64 |-> TRUE,  cs |-> 9,  ip |-> <<4100, 32768, 65535, 65535>>],
     [is64 |-> TRUE,  cs |-> 10, ip |-> <<4104, 32768, 65535, 65535>>],
     [is64 |-> TRUE,  cs |-> 43, ip |-> <<8192, 1, 32767, 0>>],
     [is64 |-> FALSE, cs |-> 8,  ip |-> <<4352, 49152>>],
     [is64 |-> FALSE, cs |-> 27, ip |-> <<8448, 16>>]}

\* cycle deltas handed to the conversion: none, one cycle, a second at
\* 2 GHz, 2^32, 2^33 and 2^40 + 12345
SampleDeltas ==
    {U64(0), U64(1), U64(2000000000), <<0, 0, 1, 0>>, <<0, 0, 2, 0>>,
     <<12345, 0, 256, 0>>}

\* deadlines of machine_delay_until: already passed, one and two counter
\* advances ahead at 2 GHz, and never
DelayDeadlines == {U64(0), U64(50), U64(100), EndOfAllTime}
DelayIntervals == {U64(0), U64(50)}

\* how much later than requested the timer driver may arm
ArmSlips == {U64(0), U64(7)}

----------------------------------------------------------------------------
(* State *)

VARIABLES
    tsc,                 \* rdtsc64(): the hardware cycle counter
    tscFreq,             \* the measured counter frequency (set before
                         \* rtclock_early_init runs, never by this file)
    nticks,              \* times the counter has advanced (bounds the run)
    nadjusts,            \* rtc_clock_adjust calls so far (bounds the run)
    nwakeups,            \* rtc_sleep_wakeup calls so far (bounds the run)
    darling,             \* TRUE when built with __DARLING__ defined
    booted,              \* rtclock_early_init has run
    halted,              \* an assertion failed
    rnt,                 \* pal_rtc_nanotime_info
    commpage,            \* the tuple last handed to commpage_set_nanotime
    acpi,                \* gAcpiLast{Sleep,Wake}{Tsc,Nano}Base
    tsc_rebase_abs_time,
    rtcDeadline,         \* x86_lcpu()->rtcDeadline of each processor
    rtcPop,              \* x86_lcpu()->rtcPop of each processor
    gPEClockFrequencyInfo, \* the exported cpu speed: cpu_clock_rate_hz,
                         \* cpu_frequency_hz, cpu_frequency_min_hz,
                         \* cpu_frequency_max_hz
    timer_intr_call,     \* the arguments of the last timer_intr() call
    delay,               \* machine_delay_until on its processor: where it
                         \* is, its deadline, whether cpu_pause() has run,
                         \* and the last time it read
    last                 \* the last operation: its name, processor,
                         \* arguments, what ml_get_interrupts_enabled()
                         \* was when it was called, the counter value it
                         \* sampled, its return value and the external
                         \* calls it made, in order

\* state that only rtclock_init, rtclock_intr and machine_delay_until write
others == <<gPEClockFrequencyInfo, timer_intr_call, delay>>

vars == <<tsc, tscFreq, others, nticks, nadjusts, nwakeups, darling, booted, halted, rnt, commpage,
          acpi, tsc_rebase_abs_time, rtcDeadline, rtcPop, last>>

Zero64 == U64(0)

Op(name, cpu, args, ie, sample, ret, calls) ==
    [op |-> name, cpu |-> cpu, args |-> args, intr |-> ie, tsc |-> sample,
     ret |-> ret, calls |-> calls]

InitWith(freqs) ==
    /\ tsc = tsc_at_boot
    /\ tscFreq \in freqs
    /\ nticks = 0
    /\ nadjusts = 0
    /\ nwakeups = 0
    /\ darling \in BOOLEAN
    /\ booted = FALSE
    /\ halted = FALSE
    /\ rnt = pal_rtc_nanotime_store(Zero64, Zero64, U32(0), 0)
    /\ commpage = pal_rtc_nanotime_store(Zero64, Zero64, U32(0), 0)
    /\ acpi = [SleepTscBase |-> Zero64, SleepNanoBase |-> Zero64,
               WakeTscBase |-> Zero64, WakeNanoBase |-> Zero64]
    /\ tsc_rebase_abs_time = Zero64
    /\ rtcDeadline = [c \in CPUS |-> EndOfAllTime]
    /\ rtcPop = [c \in CPUS |-> Zero64]
    /\ gPEClockFrequencyInfo =
         [cpu_clock_rate_hz |-> Zero64, cpu_frequency_hz |-> Zero64,
          cpu_frequency_min_hz |-> Zero64, cpu_frequency_max_hz |-> Zero64]
    /\ timer_intr_call = [user_mode |-> FALSE, rip |-> Zero64]
    /\ delay = [pc |-> "idle", deadline |-> Zero64, paused |-> FALSE,
                now |-> Zero64]
    /\ last = Op("boot", 0, <<>>, FALSE, Zero64, Zero64, <<>>)

----------------------------------------------------------------------------
(* Environment *)

\* the cycle counter advances
Tick ==
    /\ ~halted
    /\ nticks < MaxTicks
    /\ tsc' = WAdd(tsc, TickCycles)
    /\ nticks' = nticks + 1
    /\ last' = Op("tick", 0, <<>>, FALSE, tsc', Zero64, <<>>)
    /\ UNCHANGED <<tscFreq, others, nadjusts, nwakeups, darling, booted, halted, rnt, commpage, acpi,
                   tsc_rebase_abs_time, rtcDeadline, rtcPop>>

\* a failed assert(): the kernel panics, nothing else changes
Panic(name, cpu, args, ie) ==
    /\ halted' = TRUE
    /\ last' = Op(name, cpu, args, ie, tsc, Zero64, <<"panic">>)
    /\ UNCHANGED <<tsc, tscFreq, others, nticks, nadjusts, nwakeups, darling, booted, rnt, commpage,
                   acpi, tsc_rebase_abs_time, rtcDeadline, rtcPop>>

----------------
(* Time base *)

\* rtc_nanotime_init that keeps the old tsc_base instead of sampling the
\* counter
rtc_nanotime_init_stale(base, cur) ==
    /\ rnt' = pal_rtc_nanotime_store(cur.tsc_base, base, cur.scale, cur.shift)
    /\ acpi' = [SleepTscBase |-> cur.tsc_base, SleepNanoBase |-> cur.ns_base,
                WakeTscBase |-> rnt'.tsc_base, WakeNanoBase |-> rnt'.ns_base]
    /\ commpage' = rnt'

\* rtc_nanotime_init that takes the sleep snapshot after the store
rtc_nanotime_init_late(base, cur) ==
    /\ rnt' = pal_rtc_nanotime_store(tsc, base, cur.scale, cur.shift)
    /\ acpi' = [SleepTscBase |-> rnt'.tsc_base, SleepNanoBase |-> rnt'.ns_base,
                WakeTscBase |-> rnt'.tsc_base, WakeNanoBase |-> rnt'.ns_base]
    /\ commpage' = rnt'

\* rtc_nanotime_init that stores a cleared scale and shift
rtc_nanotime_init_unscaled(base, cur) ==
    /\ rnt' = pal_rtc_nanotime_store(tsc, base, U32(0), 0)
    /\ acpi' = [SleepTscBase |-> cur.tsc_base, SleepNanoBase |-> cur.ns_base,
                WakeTscBase |-> rnt'.tsc_base, WakeNanoBase |-> rnt'.ns_base]
    /\ commpage' = rnt'

\* rtc_nanotime_init(base) entered with the tuple cur: the sleep snapshot
\* takes cur's bases, _rtc_nanotime_init samples the counter and stores
\* (tsc, base) with cur's scale and shift, the wake snapshot takes the new
\* bases, and the new tuple goes to the commpage
rtc_nanotime_init(base, cur) ==
    /\ rnt' = pal_rtc_nanotime_store(tsc, base, cur.scale, cur.shift)
    /\ acpi' = [SleepTscBase |-> cur.tsc_base, SleepNanoBase |-> cur.ns_base,
                WakeTscBase |-> rnt'.tsc_base, WakeNanoBase |-> rnt'.ns_base]
    /\ commpage' = rnt'

\* rtc_set_timescale(cycles): scale and shift from the shift search, the
\* rebase time on first use, then rtc_nanotime_init(0)
rtc_set_timescale(cycles) ==
    LET t   == Timescale(cycles, U64(SLOW_TSC_THRESHOLD))
        cur == [rnt EXCEPT !.scale = t.scale, !.shift = t.shift]
    IN  /\ tsc_rebase_abs_time' =
              IF IsZero(tsc_rebase_abs_time)
              THEN rtc_tsc_to_nanoseconds(WSub(tsc, tsc_at_boot), cur)
              ELSE tsc_rebase_abs_time
        /\ rtc_nanotime_init(Zero64, cur)

\* rtclock_early_init that returns quietly on a zero frequency instead of
\* asserting
rtclock_early_init_quiet ==
    /\ ~halted
    /\ ~booted
    /\ IF IsZero(tscFreq)
       THEN /\ booted' = TRUE
            /\ last' = Op("rtclock_early_init", 0, <<>>, FALSE, tsc, Zero64, <<>>)
            /\ UNCHANGED <<tsc, tscFreq, others, nticks, nadjusts, nwakeups, darling, halted,
                           rnt, commpage, acpi, tsc_rebase_abs_time, rtcDeadline,
                           rtcPop>>
       ELSE /\ rtc_set_timescale(tscFreq)
            /\ booted' = TRUE
            /\ last' = Op("rtclock_early_init", 0, <<>>, FALSE, tsc,
                          Zero64, <<"commpage_set_nanotime">>)
            /\ UNCHANGED <<tsc, tscFreq, others, nticks, nadjusts, nwakeups, darling, halted,
                           rtcDeadline, rtcPop>>

\* rtclock_early_init: assert(tscFreq); rtc_set_timescale(tscFreq)
rtclock_early_init ==
    /\ ~halted
    /\ ~booted
    /\ IF IsZero(tscFreq)
       THEN Panic("rtclock_early_init", 0, <<>>, FALSE)
       ELSE /\ rtc_set_timescale(tscFreq)
            /\ booted' = TRUE
            /\ last' = Op("rtclock_early_init", 0, <<>>, FALSE, tsc,
                          Zero64, <<"commpage_set_nanotime">>)
            /\ UNCHANGED <<tsc, tscFreq, others, nticks, nadjusts, nwakeups, darling, halted,
                           rtcDeadline, rtcPop>>

\* mach_absolute_time() = rtc_nanotime_read()
mach_absolute_time ==
    /\ ~halted
    /\ booted
    /\ LET now == rtc_nanotime_read_at(tsc, rnt)
       IN  last' = Op("mach_absolute_time", 0, <<>>, FALSE, tsc, now, <<>>)
    /\ UNCHANGED <<tsc, tscFreq, others, nticks, nadjusts, nwakeups, darling, booted, halted, rnt,
                   commpage, acpi, tsc_rebase_abs_time, rtcDeadline, rtcPop>>

----------------------------------------------------------------------------
(* Power management entry points *)

\* the two times rtc_clock_napped compares, at the counter value it samples
NapOld(sample) ==
    WAdd(rnt.ns_base, rtc_tsc_to_nanoseconds(WSub(sample, rnt.tsc_base), rnt))
NapNew(sample, base, tsc_base) ==
    WAdd(base, rtc_tsc_to_nanoseconds(WSub(sample, tsc_base), rnt))

\* the gate with oldnsecs <= newnsecs
NapAcceptsEqual(oldnsecs, newnsecs) == WLe(oldnsecs, newnsecs)

\* if (oldnsecs < newnsecs)
NapAccepts(oldnsecs, newnsecs) == WLt(oldnsecs, newnsecs)

\* rtc_clock_napped that installs an accepted candidate through
\* rtc_nanotime_init's snapshots
rtc_clock_napped_snap(base, tsc_base, ie) ==
    /\ ~halted
    /\ booted
    /\ IF ie
       THEN Panic("rtc_clock_napped", 0, <<base, tsc_base>>, ie)
       ELSE /\ IF NapAccepts(NapOld(tsc), NapNew(tsc, base, tsc_base))
               THEN /\ rnt' = pal_rtc_nanotime_store(tsc_base, base,
                                                     rnt.scale, rnt.shift)
                    /\ acpi' = [acpi EXCEPT !.WakeTscBase = tsc_base,
                                            !.WakeNanoBase = base]
                    /\ commpage' = rnt'
                    /\ last' = Op("rtc_clock_napped", 0, <<base, tsc_base>>,
                                  ie, tsc, Zero64, <<"commpage_set_nanotime">>)
               ELSE /\ UNCHANGED <<rnt, commpage, acpi>>
                    /\ last' = Op("rtc_clock_napped", 0, <<base, tsc_base>>,
                                  ie, tsc, Zero64, <<>>)
            /\ UNCHANGED <<tsc, tscFreq, others, nticks, nadjusts, nwakeups, darling,
                           booted, halted, tsc_rebase_abs_time, rtcDeadline,
                           rtcPop>>

\* rtc_clock_napped(base, tsc_base), called with interrupts enabled (ie) or
\* disabled
rtc_clock_napped(base, tsc_base, ie) ==
    /\ ~halted
    /\ booted
    /\ IF ie
       THEN Panic("rtc_clock_napped", 0, <<base, tsc_base>>, ie)
       ELSE /\ IF NapAccepts(NapOld(tsc), NapNew(tsc, base, tsc_base))
               THEN /\ rnt' = pal_rtc_nanotime_store(tsc_base, base,
                                                     rnt.scale, rnt.shift)
                    /\ commpage' = rnt'
                    /\ last' = Op("rtc_clock_napped", 0, <<base, tsc_base>>,
                                  ie, tsc, Zero64, <<"commpage_set_nanotime">>)
               ELSE /\ UNCHANGED <<rnt, commpage>>
                    /\ last' = Op("rtc_clock_napped", 0, <<base, tsc_base>>,
                                  ie, tsc, Zero64, <<>>)
            /\ UNCHANGED <<tsc, tscFreq, others, nticks, nadjusts, nwakeups, darling, booted, halted,
                           acpi, tsc_rebase_abs_time, rtcDeadline, rtcPop>>

\* the bound with tsc_base_delta <= 100
AdjustAllowedInclusive(delta) == WLe(delta, U64(ADJUST_LIMIT))

\* assert(tsc_base_delta < 100ULL)
AdjustAllowed(delta) == WLt(delta, U64(ADJUST_LIMIT))

\* rtc_clock_adjust without the rtc_nanotime_set_commpage() call
rtc_clock_adjust_unpublished(delta, ie) ==
    /\ ~halted
    /\ booted
    /\ nadjusts < MaxAdjusts
    /\ IF ie \/ ~AdjustAllowed(delta)
       THEN Panic("rtc_clock_adjust", 0, <<delta>>, ie)
       ELSE /\ rnt' = rtc_nanotime_adjust(delta, rnt)
            /\ nadjusts' = nadjusts + 1
            /\ last' = Op("rtc_clock_adjust", 0, <<delta>>, ie, tsc, Zero64, <<>>)
            /\ UNCHANGED <<tsc, tscFreq, others, nticks, nwakeups, darling, booted, halted, acpi,
                           commpage, tsc_rebase_abs_time, rtcDeadline, rtcPop>>

\* rtc_clock_adjust(tsc_base_delta), called with interrupts enabled (ie) or
\* disabled
rtc_clock_adjust(delta, ie) ==
    /\ ~halted
    /\ booted
    /\ nadjusts < MaxAdjusts
    /\ IF ie \/ ~AdjustAllowed(delta)
       THEN Panic("rtc_clock_adjust", 0, <<delta>>, ie)
       ELSE /\ rnt' = rtc_nanotime_adjust(delta, rnt)
            /\ commpage' = rnt'
            /\ nadjusts' = nadjusts + 1
            /\ last' = Op("rtc_clock_adjust", 0, <<delta>>, ie, tsc, Zero64,
                          <<"commpage_set_nanotime">>)
            /\ UNCHANGED <<tsc, tscFreq, others, nticks, nwakeups, darling, booted, halted, acpi,
                           tsc_rebase_abs_time, rtcDeadline, rtcPop>>

\* rtc_sleep_wakeup without the rtc_config() call
rtc_sleep_wakeup_noconfig(base, ie) ==
    /\ ~halted
    /\ booted
    /\ nwakeups < MaxWakeups
    /\ rtc_nanotime_init(base, rnt)
    /\ nwakeups' = nwakeups + 1
    /\ last' = Op("rtc_sleep_wakeup", 0, <<base>>, ie, tsc, Zero64,
                  <<"commpage_set_nanotime">>)
    /\ UNCHANGED <<tsc, tscFreq, others, nticks, nadjusts, darling, booted, halted,
                   tsc_rebase_abs_time, rtcDeadline, rtcPop>>

\* rtc_sleep_wakeup(base), called with interrupts enabled (ie) or disabled:
\* rtc_timer->rtc_config(), then rtc_nanotime_init(base)
rtc_sleep_wakeup(base, ie) ==
    /\ ~halted
    /\ booted
    /\ nwakeups < MaxWakeups
    /\ rtc_nanotime_init(base, rnt)
    /\ nwakeups' = nwakeups + 1
    /\ last' = Op("rtc_sleep_wakeup", 0, <<base>>, ie, tsc, Zero64,
                  <<"rtc_config", "commpage_set_nanotime">>)
    /\ UNCHANGED <<tsc, tscFreq, others, nticks, nadjusts, darling, booted, halted,
                   tsc_rebase_abs_time, rtcDeadline, rtcPop>>

----------------------------------------------------------------------------
(* Deadlines *)

\* rtc_timer_start that also clears the timer through the driver
rtc_timer_start_disarm(cpu) ==
    /\ ~halted
    /\ booted
    /\ rtcDeadline' = IF darling THEN rtcDeadline
                      ELSE [rtcDeadline EXCEPT ![cpu] = EndOfAllTime]
    /\ rtcPop' = [rtcPop EXCEPT ![cpu] = Zero64]
    /\ last' = Op("rtc_timer_start", cpu, <<>>, FALSE, tsc, Zero64,
                  <<"rtc_set(0, 0)", "timer_resync_deadlines">>)
    /\ UNCHANGED <<tsc, tscFreq, others, nticks, nadjusts, nwakeups, darling, booted, halted, rnt,
                   commpage, acpi, tsc_rebase_abs_time>>

\* rtc_timer_start() on processor cpu: without __DARLING__ the recorded
\* deadline becomes EndOfAllTime; then timer_resync_deadlines()
rtc_timer_start(cpu) ==
    /\ ~halted
    /\ booted
    /\ rtcDeadline' = IF darling THEN rtcDeadline
                      ELSE [rtcDeadline EXCEPT ![cpu] = EndOfAllTime]
    /\ last' = Op("rtc_timer_start", cpu, <<>>, FALSE, tsc, Zero64,
                  <<"timer_resync_deadlines">>)
    /\ UNCHANGED <<tsc, tscFreq, others, nticks, nadjusts, nwakeups, darling, booted, halted, rnt,
                   commpage, acpi, tsc_rebase_abs_time, rtcPop>>

\* rtc_timer->rtc_set(deadline, now): zero disarms and returns zero;
\* otherwise the timer is armed for the deadline or slightly later, and the
\* time it is armed for is returned
rtc_set(deadline, now, slip) ==
    IF IsZero(deadline) THEN Zero64 ELSE WAdd(deadline, slip)

\* setPop that treats only 0, not EndOfAllTime, as "clear the timer"
setPop_zero_only(cpu, time) ==
    /\ ~halted
    /\ booted
    /\ ~darling
    /\ \E slip \in ArmSlips :
         LET clear == IsZero(time)
             now   == IF clear THEN Zero64 ELSE rtc_nanotime_read_at(tsc, rnt)
             pop   == IF clear THEN rtc_set(Zero64, Zero64, slip)
                      ELSE rtc_set(time, now, slip)
         IN  /\ rtcDeadline' = [rtcDeadline EXCEPT
                                  ![cpu] = IF clear THEN EndOfAllTime ELSE time]
             /\ rtcPop' = [rtcPop EXCEPT ![cpu] = pop]
             /\ last' = Op("setPop", cpu, <<time>>, FALSE, tsc, WSub(pop, now),
                           IF clear THEN <<"rtc_set(0, 0)">>
                           ELSE <<"rtc_nanotime_read", "rtc_set(time, now)">>)
    /\ UNCHANGED <<tsc, tscFreq, others, nticks, nadjusts, nwakeups, darling, booted, halted, rnt,
                   commpage, acpi, tsc_rebase_abs_time>>

\* setPop that returns pop - time
setPop_slip(cpu, time) ==
    /\ ~halted
    /\ booted
    /\ ~darling
    /\ \E slip \in ArmSlips :
         LET clear == IsZero(time) \/ time = EndOfAllTime
             now   == IF clear THEN Zero64 ELSE rtc_nanotime_read_at(tsc, rnt)
             pop   == IF clear THEN rtc_set(Zero64, Zero64, slip)
                      ELSE rtc_set(time, now, slip)
         IN  /\ rtcDeadline' = [rtcDeadline EXCEPT
                                  ![cpu] = IF clear THEN EndOfAllTime ELSE time]
             /\ rtcPop' = [rtcPop EXCEPT ![cpu] = pop]
             /\ last' = Op("setPop", cpu, <<time>>, FALSE, tsc, WSub(pop, time),
                           IF clear THEN <<"rtc_set(0, 0)">>
                           ELSE <<"rtc_nanotime_read", "rtc_set(time, now)">>)
    /\ UNCHANGED <<tsc, tscFreq, others, nticks, nadjusts, nwakeups, darling, booted, halted, rnt,
                   commpage, acpi, tsc_rebase_abs_time>>

\* setPop that records the achieved time as the deadline and the requested
\* time as the pop
setPop_swapped(cpu, time) ==
    /\ ~halted
    /\ booted
    /\ ~darling
    /\ \E slip \in ArmSlips :
         LET clear == IsZero(time) \/ time = EndOfAllTime
             now   == IF clear THEN Zero64 ELSE rtc_nanotime_read_at(tsc, rnt)
             pop   == IF clear THEN rtc_set(Zero64, Zero64, slip)
                      ELSE rtc_set(time, now, slip)
         IN  /\ rtcDeadline' = [rtcDeadline EXCEPT
                                  ![cpu] = IF clear THEN EndOfAllTime ELSE pop]
             /\ rtcPop' = [rtcPop EXCEPT ![cpu] = IF clear THEN pop ELSE time]
             /\ last' = Op("setPop", cpu, <<time>>, FALSE, tsc, WSub(pop, now),
                           IF clear THEN <<"rtc_set(0, 0)">>
                           ELSE <<"rtc_nanotime_read", "rtc_set(time, now)">>)
    /\ UNCHANGED <<tsc, tscFreq, others, nticks, nadjusts, nwakeups, darling, booted, halted, rnt,
                   commpage, acpi, tsc_rebase_abs_time>>

\* setPop(time) on processor cpu (compiled only without __DARLING__): 0 and
\* EndOfAllTime clear the timer with rtc_set(0, 0) and now = 0; any other
\* time reads the clock and arms with rtc_set(time, now); the requested and
\* the achieved time are recorded, and pop - now is returned
setPop(cpu, time) ==
    /\ ~halted
    /\ booted
    /\ ~darling
    /\ \E slip \in ArmSlips :
         LET clear == IsZero(time) \/ time = EndOfAllTime
             now   == IF clear THEN Zero64 ELSE rtc_nanotime_read_at(tsc, rnt)
             pop   == IF clear THEN rtc_set(Zero64, Zero64, slip)
                      ELSE rtc_set(time, now, slip)
         IN  /\ rtcDeadline' = [rtcDeadline EXCEPT
                                  ![cpu] = IF clear THEN EndOfAllTime ELSE time]
             /\ rtcPop' = [rtcPop EXCEPT ![cpu] = pop]
             /\ last' = Op("setPop", cpu, <<time>>, FALSE, tsc, WSub(pop, now),
                           IF clear THEN <<"rtc_set(0, 0)">>
                           ELSE <<"rtc_nanotime_read", "rtc_set(time, now)">>)
    /\ UNCHANGED <<tsc, tscFreq, others, nticks, nadjusts, nwakeups, darling, booted, halted, rnt,
                   commpage, acpi, tsc_rebase_abs_time>>

----------------------------------------------------------------------------
(* Start-up and the timer interrupt *)

\* rtc_export_speed(cyc_per_sec): the frequency rounded to the nearest
\* UI_CPUFREQ_ROUNDING_FACTOR, and what it stores of it
RoundedSpeed(cyc_per_sec) ==
    Cast(Mul64x32(WDiv(WAdd(cyc_per_sec, U64(UI_CPUFREQ_ROUNDING_FACTOR \div 2)),
                       U64(UI_CPUFREQ_ROUNDING_FACTOR)),
                  U32(UI_CPUFREQ_ROUNDING_FACTOR)), 4)

rtc_export_speed(cyc_per_sec, info) ==
    LET cycles == RoundedSpeed(cyc_per_sec)
    IN  [info EXCEPT
           !.cpu_clock_rate_hz = IF WLe(<<0, 0, 1, 0>>, cycles)
                                 THEN <<Limb - 1, Limb - 1, 0, 0>>
                                 ELSE cycles,
           !.cpu_frequency_hz = cycles]

\* rtclock_init() on processor cpu, called with interrupts enabled (ie) or
\* disabled.  With __DARLING__ the body is empty.  Without it: the
\* assertions, on the master processor the exported speed and the timer and
\* timebase initialisation, then rtc_config() and rtc_timer_start()
rtclock_init(cpu, ie) ==
    /\ ~halted
    /\ booted
    /\ IF darling
       THEN /\ last' = Op("rtclock_init", cpu, <<>>, ie, tsc, U64(1), <<>>)
            /\ UNCHANGED <<tsc, tscFreq, others, nticks, nadjusts, nwakeups,
                           darling, booted, halted, rnt, commpage, acpi,
                           tsc_rebase_abs_time, rtcDeadline, rtcPop>>
       ELSE IF ie \/ (cpu = master_cpu /\ IsZero(tscFreq))
       THEN Panic("rtclock_init", cpu, <<>>, ie)
       ELSE /\ gPEClockFrequencyInfo' =
                 IF cpu = master_cpu
                 THEN [rtc_export_speed(tscFreq, gPEClockFrequencyInfo) EXCEPT
                         !.cpu_frequency_min_hz = RoundedSpeed(tscFreq),
                         !.cpu_frequency_max_hz = RoundedSpeed(tscFreq)]
                 ELSE gPEClockFrequencyInfo
            /\ rtcDeadline' = [rtcDeadline EXCEPT ![cpu] = EndOfAllTime]
            /\ last' = Op("rtclock_init", cpu, <<>>, ie, tsc, U64(1),
                          (IF cpu = master_cpu
                           THEN <<"rtc_timer_init", "clock_timebase_init",
                                  "ml_init_lock_timeout",
                                  "ml_init_delay_spin_threshold">>
                           ELSE <<>>)
                          \o <<"rtc_config", "timer_resync_deadlines">>)
            /\ UNCHANGED <<tsc, tscFreq, timer_intr_call, delay, nticks,
                           nadjusts, nwakeups, darling, booted, halted, rnt,
                           commpage, acpi, tsc_rebase_abs_time, rtcPop>>

\* user_mode of rtclock_intr true only for ring 3
UserModeRing3(cs) == cs % 4 = 3

\* if (cs & 0x03) user_mode = TRUE
UserMode(cs) == cs % 4 # 0

\* rtclock_intr(tregs) on processor cpu at preemption level pl, with
\* interrupts enabled (ie) or disabled: the assertions, then
\* timer_intr(user_mode, rip) with rip = isf.rip of a 64-bit state, eip of a
\* 32-bit one
rtclock_intr(cpu, pl, ie, tregs) ==
    /\ ~halted
    /\ booted
    /\ IF ~(pl > 0) \/ ie
       THEN Panic("rtclock_intr", cpu, <<pl, tregs>>, ie)
       ELSE /\ timer_intr_call' =
                 [user_mode |-> UserMode(tregs.cs),
                  rip |-> IF tregs.is64 THEN tregs.ip ELSE Cast(tregs.ip, 4)]
            /\ last' = Op("rtclock_intr", cpu, <<pl, tregs>>, ie, tsc, Zero64,
                          <<"timer_intr">>)
            /\ UNCHANGED <<tsc, tscFreq, gPEClockFrequencyInfo, delay, nticks,
                           nadjusts, nwakeups, darling, booted, halted, rnt,
                           commpage, acpi, tsc_rebase_abs_time, rtcDeadline,
                           rtcPop>>

----------------------------------------------------------------------------
(* Busy-wait *)

\* the loop test with <= in place of <
DelaySpinsInclusive(now, deadline) == WLe(now, deadline)

\* mach_absolute_time() < deadline
DelaySpins(now, deadline) == WLt(now, deadline)

\* machine_delay_until(interval, deadline) is called: interval is ignored,
\* the loop is about to evaluate its test for the first time
machine_delay_until(interval, deadline) ==
    /\ ~halted
    /\ booted
    /\ delay.pc \in {"idle", "returned"}
    /\ delay' = [pc |-> "test", deadline |-> deadline, paused |-> FALSE,
                 now |-> Zero64]
    /\ last' = Op("machine_delay_until", 0, <<interval, deadline>>, FALSE, tsc,
                  Zero64, <<>>)
    /\ UNCHANGED <<tsc, tscFreq, gPEClockFrequencyInfo, timer_intr_call,
                   nticks, nadjusts, nwakeups, darling, booted, halted, rnt,
                   commpage, acpi, tsc_rebase_abs_time, rtcDeadline, rtcPop>>

\* the loop test: one read of mach_absolute_time(); below the deadline the
\* loop body follows, otherwise the function returns
machine_delay_until_test ==
    /\ ~halted
    /\ delay.pc = "test"
    /\ LET now == rtc_nanotime_read_at(tsc, rnt)
       IN  /\ delay' = [delay EXCEPT
                          !.now = now,
                          !.pc = IF DelaySpins(now, delay.deadline)
                                 THEN "pause" ELSE "returned"]
           /\ last' = Op("machine_delay_until_test", 0, <<delay.deadline>>,
                         FALSE, tsc, now, <<"mach_absolute_time">>)
    /\ UNCHANGED <<tsc, tscFreq, gPEClockFrequencyInfo, timer_intr_call,
                   nticks, nadjusts, nwakeups, darling, booted, halted, rnt,
                   commpage, acpi, tsc_rebase_abs_time, rtcDeadline, rtcPop>>

\* the loop body: cpu_pause(), then back to the test
cpu_pause ==
    /\ ~halted
    /\ delay.pc = "pause"
    /\ delay' = [delay EXCEPT !.pc = "test", !.paused = TRUE]
    /\ last' = Op("cpu_pause", 0, <<>>, FALSE, tsc, Zero64, <<"cpu_pause">>)
    /\ UNCHANGED <<tsc, tscFreq, gPEClockFrequencyInfo, timer_intr_call,
                   nticks, nadjusts, nwakeups, darling, booted, halted, rnt,
                   commpage, acpi, tsc_rebase_abs_time, rtcDeadline, rtcPop>>

----------------------------------------------------------------------------
(* Specifications *)

\* The time base: calibration at boot, reads, and the three power
\* management entry points, under every input of the sets above.
Init == InitWith(BootFreqs)

Next ==
    \/ Tick
    \/ rtclock_early_init
    \/ mach_absolute_time
    \/ \E base \in NapBases, tsc_base \in NapTscBases, ie \in BOOLEAN :
         rtc_clock_napped(base, tsc_base, ie)
    \/ \E delta \in AdjustDeltas, ie \in BOOLEAN : rtc_clock_adjust(delta, ie)
    \/ \E base \in WakeBases, ie \in BOOLEAN : rtc_sleep_wakeup(base, ie)

Spec == Init /\ [][Next]_vars

\* Every operation, on a slow counter: the deadline operations under every
\* input of the sets above, the time base operations under one input each.
InitTimer == InitWith(SlowBootFreqs)

NextTimer ==
    \/ Tick
    \/ rtclock_early_init
    \/ mach_absolute_time
    \/ rtc_clock_napped(U64(200000), tsc_at_boot, FALSE)
    \/ rtc_clock_adjust(U64(ADJUST_LIMIT - 1), FALSE)
    \/ rtc_sleep_wakeup(U64(1000000), FALSE)
    \/ \E cpu \in CPUS : rtc_timer_start(cpu)
    \/ \E cpu \in CPUS, time \in PopTimes : setPop(cpu, time)

SpecTimer == InitTimer /\ [][NextTimer]_vars

\* Start-up and deadlines on two processors, in builds with and without
\* __DARLING__.
InitDeadline == InitWith({U64(2000000000)})

NextDeadline ==
    \/ Tick
    \/ rtclock_early_init
    \/ \E cpu \in CPUS, ie \in BOOLEAN : rtclock_init(cpu, ie)
    \/ \E cpu \in CPUS : rtc_timer_start(cpu)
    \/ \E cpu \in CPUS, time \in PopTimes : setPop(cpu, time)

SpecDeadline == InitDeadline /\ [][NextDeadline]_vars

\* The busy-wait while the counter advances and rtc_clock_napped moves the
\* time forward; the counter keeps advancing and the spinning processor
\* keeps executing its loop.
InitDelay == InitWith({U64(2000000000)})

NextDelay ==
    \/ Tick
    \/ rtclock_early_init
    \/ rtc_clock_napped(U64(50), tsc_at_boot, FALSE)
    \/ \E interval \in DelayIntervals, deadline \in DelayDeadlines :
         machine_delay_until(interval, deadline)
    \/ machine_delay_until_test
    \/ cpu_pause

SpecDelay ==
    /\ InitDelay
    /\ [][NextDelay]_vars
    /\ WF_vars(Tick)
    /\ WF_vars(machine_delay_until_test)
    /\ WF_vars(cpu_pause)

\* The timer interrupt on a processor with a deadline armed, under every
\* preemption level, interrupt state and saved state of the sets above.
InitIntr == InitWith(SlowBootFreqs)

NextIntr ==
    \/ Tick
    \/ rtclock_early_init
    \/ setPop(0, U64(5000000))
    \/ \E pl \in PreemptionLevels, ie \in BOOLEAN, tregs \in SavedStates :
         rtclock_intr(0, pl, ie, tregs)

SpecIntr == InitIntr /\ [][NextIntr]_vars

\* rtc_clock_napped alone after the calibration, with candidates below, on
\* and above the existing time.
InitNap == InitWith(BootFreqs)

NextNap ==
    \/ Tick
    \/ rtclock_early_init
    \/ mach_absolute_time
    \/ \E base \in NapBasesFine, tsc_base \in NapTscBasesFine, ie \in BOOLEAN :
         rtc_clock_napped(base, tsc_base, ie)

SpecNap == InitNap /\ [][NextNap]_vars

\* The calibration alone, for every frequency of CalFreqs, and reads under
\* the calibrated tuple.
InitCal == InitWith(CalFreqs)

NextCal ==
    \/ Tick
    \/ rtclock_early_init
    \/ mach_absolute_time

SpecCal == InitCal /\ [][NextCal]_vars

----------------------------------------------------------------------------
(* Properties *)

\* what mach_absolute_time() would return in the current state
Now == rtc_nanotime_read_at(tsc, rnt)

PowerOps == {"rtc_clock_napped", "rtc_clock_adjust", "rtc_sleep_wakeup"}

\* 1e9 << 32 as a 96-bit word
NsecShifted == Cast(ShlLimbs(U64(NSEC_PER_SEC), 2), 6)

\* C1: monotonicity.  Across every step that is a counter advance, a read,
\* an rtc_clock_napped call or an rtc_clock_adjust call that did not halt,
\* the absolute time a read returns does not decrease.
C1_Monotonic ==
    [][ ( /\ booted
          /\ ~halted'
          /\ last'.op \in {"tick", "mach_absolute_time", "rtc_clock_napped",
                           "rtc_clock_adjust"} )
        => WLe(Now, rtc_nanotime_read_at(tsc', rnt')) ]_vars

\* C2: the idle-exit gate.  rtc_clock_napped(base, tsc_base) with interrupts
\* disabled compares the time T of the existing tuple with the time N of the
\* candidate at the sampled counter value: N <= T leaves the four tuple
\* fields and the published tuple alone and publishes nothing; N > T stores
\* exactly (tsc_base, base) with the old scale and shift and publishes it.
\* A tsc_base ahead of the counter is compared the same way: at 2 GHz the
\* candidate (0, counter + 100) reads 2^63 - 50 and is installed.
C2_IdleExitGate ==
    [][ (last'.op = "rtc_clock_napped" /\ ~last'.intr) =>
            LET base     == last'.args[1]
                tsc_base == last'.args[2]
                T        == NapOld(tsc)
                N        == NapNew(tsc, base, tsc_base)
            IN  /\ WLe(N, T) => /\ rnt' = rnt
                                /\ commpage' = commpage
                                /\ last'.calls = <<>>
                /\ WLt(T, N) => /\ rnt'.tsc_base = tsc_base
                                /\ rnt'.ns_base = base
                                /\ rnt'.scale = rnt.scale
                                /\ rnt'.shift = rnt.shift
                                /\ commpage' = rnt'
                                /\ last'.calls = <<"commpage_set_nanotime">>
                /\ ( /\ tsc = tsc_at_boot
                      /\ rnt.tsc_base = tsc_at_boot
                      /\ rnt.ns_base = Zero64
                      /\ base = Zero64
                      /\ tsc_base = WAdd(tsc_at_boot, TickCycles) ) =>
                     /\ N = <<65486, 65535, 65535, 32767>>
                     /\ rnt'.tsc_base = tsc_base ]_vars

\* a candidate with another counter base and a time equal to the existing
\* time was discarded, after an earlier later candidate had been installed
C2_Witness ==
    /\ last.op = "rtc_clock_napped"
    /\ ~last.intr
    /\ last.calls = <<>>
    /\ NapNew(last.tsc, last.args[1], last.args[2]) = NapOld(last.tsc)
    /\ last.args[2] # rnt.tsc_base
    /\ rnt.ns_base = U64(50)
    /\ commpage = rnt

\* C3 as stated: frequencies below the threshold get shift > 0, frequencies
\* at or above it (the threshold itself included) get shift = 0.
C3_ShiftAtThresholdZero ==
    booted =>
      /\ WLt(tscFreq, U64(SLOW_TSC_THRESHOLD)) => rnt.shift > 0
      /\ WLe(U64(SLOW_TSC_THRESHOLD), tscFreq) => rnt.shift = 0

\* C3: shift selection.  Every calibrated frequency from 1 up to and
\* including the threshold gets shift > 0; every frequency strictly above
\* the threshold gets shift = 0.
C3_ShiftSelection ==
    booted =>
      /\ ~IsZero(tscFreq)
      /\ WLe(tscFreq, U64(SLOW_TSC_THRESHOLD)) => rnt.shift > 0
      /\ WLt(U64(SLOW_TSC_THRESHOLD), tscFreq) => rnt.shift = 0

\* calibrated at exactly the threshold: one doubling
C3_Witness ==
    /\ booted
    /\ tscFreq = U64(SLOW_TSC_THRESHOLD)
    /\ rnt.shift = 1

\* C4 as stated: whatever threshold the loop uses (the program's, 1,000,000,
\* or one below 1e9), the inflated rate ends above the threshold and the
\* quotient (1e9 << 32) / rate needs no more than 32 bits.
C4_AnyThreshold ==
    booted =>
      \A thr \in {U64(SLOW_TSC_THRESHOLD), U64(1000000),
                  U64(NSEC_PER_SEC - 1)} :
        LET r == ShiftSearch(tscFreq, 0, thr)
        IN  /\ WLt(thr, r.cycles)
            /\ IsZero(ShrLimbs(ScaleQuotient(r.cycles), 2))

\* C4: overflow safety for thresholds of at least 1e9.  For every non-zero
\* frequency and each such threshold (1e9 itself, the program's
\* SLOW_TSC_THRESHOLD, 2^31 - 1) the loop ends with rate = frequency *
\* 2^shift strictly above the threshold, reached by doubling from a value at
\* or below it (so no doubling overflowed); the quotient q = (1e9 << 32) /
\* rate is below 2^32, so the cast keeps it: q * rate <= 1e9 << 32 <
\* (q + 1) * rate.  The calibrated tuple holds the shift and the quotient of
\* the program's threshold.
C4_OverflowSafety ==
    booted =>
      /\ \A thr \in {U64(NSEC_PER_SEC), U64(SLOW_TSC_THRESHOLD),
                     U64(2147483647)} :
           LET r     == ShiftSearch(tscFreq, 0, thr)
               rate  == Shl(tscFreq, r.shift)
               scale == Cast(ScaleQuotient(rate), 2)
               prod  == Mul64x32(rate, scale)
           IN  /\ r.cycles = rate
               /\ WLt(thr, rate)
               /\ r.shift > 0 =>
                    /\ WLe(Shl(tscFreq, r.shift - 1), thr)
                    /\ WLt(Shl(tscFreq, r.shift - 1), rate)
               /\ IsZero(ShrLimbs(ScaleQuotient(rate), 2))
               /\ WLe(prod, NsecShifted)
               /\ WLt(NsecShifted, WAdd(prod, Cast(rate, 6)))
      /\ LET rate == Shl(tscFreq, rnt.shift)
         IN  /\ WLt(U64(SLOW_TSC_THRESHOLD), rate)
             /\ rnt.shift = ShiftSearch(tscFreq, 0, U64(SLOW_TSC_THRESHOLD)).shift
             /\ rnt.scale = Cast(ScaleQuotient(rate), 2)
             /\ IsZero(ShrLimbs(ScaleQuotient(rate), 2))

\* a 500 Hz counter: 21 doublings under the program's threshold
C4_Witness ==
    /\ booted
    /\ tscFreq = U64(500)
    /\ rnt.shift = 21
    /\ Shl(tscFreq, rnt.shift) = U64(1048576000)
    /\ rnt.scale = Cast(ScaleQuotient(U64(1048576000)), 2)

\* C5: the bound of rtc_clock_adjust.  With interrupts disabled, a delta of
\* 99 adds 99 to tsc_base, keeps the other fields and publishes the tuple; a
\* delta of 100 halts and leaves the tuple and the published tuple as they
\* were.
C5_AdjustLimit ==
    [][ /\ rtc_clock_adjust(U64(ADJUST_LIMIT - 1), FALSE) =>
             /\ ~halted'
             /\ rnt' = [rnt EXCEPT
                          !.tsc_base = WAdd(rnt.tsc_base, U64(ADJUST_LIMIT - 1))]
             /\ commpage' = rnt'
             /\ last'.calls = <<"commpage_set_nanotime">>
        /\ rtc_clock_adjust(U64(ADJUST_LIMIT), FALSE) =>
             /\ halted'
             /\ rnt' = rnt
             /\ commpage' = commpage ]_vars

\* the largest allowed delta was applied to the boot tuple and published
C5_Witness ==
    /\ last.op = "rtc_clock_adjust"
    /\ last.args = <<U64(ADJUST_LIMIT - 1)>>
    /\ ~last.intr
    /\ ~halted
    /\ rnt.tsc_base = WAdd(tsc_at_boot, U64(ADJUST_LIMIT - 1))
    /\ commpage = rnt

\* C6: full reset determinism.  When rtc_sleep_wakeup(X) has returned, the
\* tuple's ns_base is X and its tsc_base is the counter value the call
\* sampled, and a read returns X there; a later read under that tuple
\* returns X plus the conversion of the cycles elapsed since the sample,
\* which is at least X.
C6_ResetDeterminism ==
    /\ last.op = "rtc_sleep_wakeup" =>
         /\ rnt.ns_base = last.args[1]
         /\ rnt.tsc_base = last.tsc
         /\ tsc = last.tsc
         /\ Now = last.args[1]
    /\ ( /\ last.op = "mach_absolute_time"
         /\ nwakeups > 0
         /\ rnt.tsc_base = acpi.WakeTscBase
         /\ rnt.ns_base = acpi.WakeNanoBase ) =>
         LET X       == acpi.WakeNanoBase
             elapsed == WSub(tsc, acpi.WakeTscBase)
         IN  /\ last.ret = WAdd(X, rtc_tsc_to_nanoseconds(elapsed, rnt))
             /\ WLe(X, last.ret)
             /\ IsZero(elapsed) => last.ret = X

\* a read 100 cycles (50 ns at 2 GHz) after a reset that replaced a tuple
\* with another tsc_base
C6_Witness ==
    /\ last.op = "mach_absolute_time"
    /\ nwakeups > 0
    /\ rnt.tsc_base = acpi.WakeTscBase
    /\ rnt.ns_base = acpi.WakeNanoBase
    /\ acpi.SleepTscBase # acpi.WakeTscBase
    /\ WSub(tsc, rnt.tsc_base) = TickCycles
    /\ last.ret = WAdd(acpi.WakeNanoBase, U64(50))

\* C7 as stated: after rtc_sleep_wakeup the calling processor's recorded
\* deadline is EndOfAllTime and rtc_config has been called.
C7_DeadlineResetByWakeup ==
    last.op = "rtc_sleep_wakeup" =>
      /\ rtcDeadline[last.cpu] = EndOfAllTime
      /\ last.calls[1] = "rtc_config"

\* C7: rtc_sleep_wakeup calls rtc_config first and resets the tuple, and
\* leaves every processor's rtcDeadline and rtcPop as they were; the
\* recorded deadline becomes EndOfAllTime when rtc_timer_start runs on the
\* processor in a build without __DARLING__, and stays in a build with it.
C7_WakeupKeepsDeadline ==
    [][ /\ rtc_sleep_wakeup(U64(1000000), FALSE) =>
             /\ last'.calls[1] = "rtc_config"
             /\ rnt'.ns_base = U64(1000000)
             /\ rtcDeadline' = rtcDeadline
             /\ rtcPop' = rtcPop
        /\ \A cpu \in CPUS :
             rtc_timer_start(cpu) =>
               /\ ~darling => rtcDeadline'[cpu] = EndOfAllTime
               /\ darling => rtcDeadline' = rtcDeadline
               /\ \A c \in CPUS \ {cpu} : rtcDeadline'[c] = rtcDeadline[c] ]_vars

\* a deadline requested before the reset is still recorded after it
C7_Witness ==
    /\ last.op = "rtc_sleep_wakeup"
    /\ last.calls[1] = "rtc_config"
    /\ rtcDeadline[0] = U64(5000000)
    /\ rnt.ns_base = U64(1000000)

\* C8 as stated: the four snapshots change only during rtc_sleep_wakeup.
C8_OnlyWakeupWrites ==
    [][ acpi' # acpi => last'.op = "rtc_sleep_wakeup" ]_vars

\* C8: the four snapshots change only where rtc_nanotime_init runs: during
\* rtc_sleep_wakeup and during the calibration (rtclock_early_init ->
\* rtc_set_timescale).  Reads, rtc_clock_napped, rtc_clock_adjust,
\* rtc_timer_start and setPop leave all four alone.
C8_SnapshotWriters ==
    [][ acpi' # acpi =>
          last'.op \in {"rtc_sleep_wakeup", "rtclock_early_init"} ]_vars

\* the calibration has written the wake snapshot
C8_Witness ==
    /\ last.op = "rtclock_early_init"
    /\ booted
    /\ acpi.WakeTscBase = tsc_at_boot
    /\ acpi.SleepTscBase = Zero64

\* C9: the snapshots of a full reset.  rtc_sleep_wakeup(X) leaves the sleep
\* pair equal to the (tsc_base, ns_base) of the tuple before the call, the
\* wake pair equal to the (tsc_base, ns_base) of the tuple after it, with
\* ns_base = X, and the published tuple equal to the tuple after it.
C9_ResetSnapshots ==
    [][ \A base \in WakeBases, ie \in BOOLEAN :
          rtc_sleep_wakeup(base, ie) =>
            /\ acpi'.SleepTscBase = rnt.tsc_base
            /\ acpi'.SleepNanoBase = rnt.ns_base
            /\ acpi'.WakeTscBase = rnt'.tsc_base
            /\ acpi'.WakeNanoBase = rnt'.ns_base
            /\ rnt'.ns_base = base
            /\ commpage' = rnt' ]_vars

\* a reset of a tuple that rtc_clock_napped had installed, one counter
\* advance later
C9_Witness ==
    /\ last.op = "rtc_sleep_wakeup"
    /\ acpi.SleepNanoBase = U64(50)
    /\ acpi.SleepTscBase = tsc_at_boot
    /\ acpi.WakeNanoBase = last.args[1]
    /\ acpi.WakeTscBase = WAdd(tsc_at_boot, TickCycles)
    /\ commpage = rnt

\* C10: each of rtc_clock_napped, rtc_clock_adjust and rtc_sleep_wakeup,
\* called with interrupts enabled, halts on an assertion with the tuple and
\* the published tuple unmodified.
C10_InterruptsChecked ==
    [][ (last'.intr /\ last'.op \in PowerOps) =>
          /\ halted'
          /\ rnt' = rnt
          /\ commpage' = commpage ]_vars

ZeroTuple == pal_rtc_nanotime_store(Zero64, Zero64, U32(0), 0)

\* C11: a zero frequency is rejected.  rtclock_early_init with tscFreq = 0
\* fails its assertion: the kernel halts, no calibration call is made (the
\* shift search and the division are never entered), the tuple and the
\* published tuple keep all four fields, and the clock never counts as
\* calibrated afterwards.
C11_ZeroFrequencyRejected ==
    /\ [](IsZero(tscFreq) => (~booted /\ rnt = ZeroTuple /\ commpage = ZeroTuple))
    /\ [][ (IsZero(tscFreq) /\ last'.op = "rtclock_early_init") =>
             /\ halted'
             /\ last'.calls = <<"panic">>
             /\ rnt' = rnt
             /\ commpage' = commpage
             /\ tsc_rebase_abs_time' = tsc_rebase_abs_time
             /\ acpi' = acpi ]_vars

\* the assertion has failed on a zero frequency, the tuple still all zero
C11_Witness ==
    /\ IsZero(tscFreq)
    /\ last.op = "rtclock_early_init"
    /\ last.calls = <<"panic">>
    /\ halted
    /\ ~booted
    /\ rnt = ZeroTuple

\* C12: publish follows every mutation.  In every state between operations
\* the published tuple equals the kernel's tuple in all four fields; a step
\* that changes the tuple ends with commpage_set_nanotime of the new tuple,
\* and a step that leaves the tuple alone (a rejected rtc_clock_napped
\* candidate, a read, a failed assertion) publishes nothing.
C12_PublishFollowsMutation ==
    /\ [](commpage = rnt)
    /\ [][ /\ rnt' # rnt =>
                /\ commpage' = rnt'
                /\ Len(last'.calls) > 0
                /\ last'.calls[Len(last'.calls)] = "commpage_set_nanotime"
           /\ ( /\ last'.op = "rtc_clock_napped"
                /\ rnt' = rnt ) =>
                /\ commpage' = commpage
                /\ last'.calls \in {<<>>, <<"panic">>} ]_vars

\* a bounded adjust of a tuple that an accepted candidate had installed has
\* been published
C12_Witness ==
    /\ last.op = "rtc_clock_adjust"
    /\ last.calls = <<"commpage_set_nanotime">>
    /\ rnt.ns_base = U64(50)
    /\ rnt.tsc_base = WAdd(tsc_at_boot, U64(ADJUST_LIMIT - 1))
    /\ commpage = rnt

\* the times for which setPop clears the timer
ClearTimes == {Zero64, EndOfAllTime}

\* C13: a request with 0 or EndOfAllTime disarms.  Whatever deadline the
\* processor had recorded, setPop(0) and setPop(EndOfAllTime) make one
\* driver call, rtc_set(0, 0), without reading the clock, record
\* EndOfAllTime as the deadline and the driver's answer as the pop, and
\* leave the other processor's deadline state and the tuple alone.
C13_ClearDisarms ==
    [][ (last'.op = "setPop" /\ last'.args[1] \in ClearTimes) =>
          /\ last'.calls = <<"rtc_set(0, 0)">>
          /\ rtcDeadline'[last'.cpu] = EndOfAllTime
          /\ rtcPop'[last'.cpu] \in {rtc_set(Zero64, Zero64, slip) : slip \in ArmSlips}
          /\ \A c \in CPUS \ {last'.cpu} :
               rtcDeadline'[c] = rtcDeadline[c] /\ rtcPop'[c] = rtcPop[c]
          /\ rnt' = rnt
          /\ commpage' = commpage ]_vars

\* setPop(EndOfAllTime) has disarmed processor 0 while processor 1 stays
\* armed
C13_Witness ==
    /\ last.op = "setPop"
    /\ last.cpu = 0
    /\ last.args = <<EndOfAllTime>>
    /\ last.calls = <<"rtc_set(0, 0)">>
    /\ rtcDeadline[0] = EndOfAllTime
    /\ rtcPop[0] = Zero64
    /\ rtcDeadline[1] = U64(5000000)

\* C14 as stated: for a time that is neither 0 nor EndOfAllTime setPop
\* returns the difference between the requested time and the achieved time
\* (in either direction).
C14_ReturnsSlip ==
    (last.op = "setPop" /\ last.args[1] \notin ClearTimes) =>
      last.ret \in {WSub(rtcPop[last.cpu], last.args[1]),
                    WSub(last.args[1], rtcPop[last.cpu])}

\* C14: the return value of setPop.  setPop returns pop - now modulo 2^64:
\* the achieved time the driver returned minus the time read before arming
\* (minus 0 when the timer is cleared), i.e. the interval from now to the
\* pop, not the slip between requested and achieved time.
C14_ReturnsPopMinusNow ==
    last.op = "setPop" =>
      LET now == IF last.args[1] \in ClearTimes THEN Zero64
                 ELSE rtc_nanotime_read_at(last.tsc, rnt)
      IN  last.ret = WSub(rtcPop[last.cpu], now)

\* armed for 5,000,000 at time 50 with a slip of 7: 4,999,957 is returned
C14_Witness ==
    /\ last.op = "setPop"
    /\ last.args = <<U64(5000000)>>
    /\ rtcPop[last.cpu] = U64(5000007)
    /\ rtc_nanotime_read_at(last.tsc, rnt) = U64(50)
    /\ last.ret = U64(4999957)

\* C15: a request arms and records.  For a time that is neither 0 nor
\* EndOfAllTime setPop reads the clock once, makes one driver call,
\* rtc_set(time, now), records time as the processor's deadline and the
\* driver's answer as its pop, and leaves the other processor's deadline
\* state, the tuple and the published tuple alone.
C15_ArmRecords ==
    [][ (last'.op = "setPop" /\ last'.args[1] \notin ClearTimes) =>
          LET time == last'.args[1]
              now  == rtc_nanotime_read_at(tsc, rnt)
          IN  /\ last'.calls = <<"rtc_nanotime_read", "rtc_set(time, now)">>
              /\ rtcDeadline'[last'.cpu] = time
              /\ rtcPop'[last'.cpu] \in {rtc_set(time, now, slip) : slip \in ArmSlips}
              /\ \A c \in CPUS \ {last'.cpu} :
                   rtcDeadline'[c] = rtcDeadline[c] /\ rtcPop'[c] = rtcPop[c]
              /\ rnt' = rnt
              /\ commpage' = commpage ]_vars

\* processor 1 armed for 5,000,000 and achieved 5,000,007, processor 0 idle
C15_Witness ==
    /\ last.op = "setPop"
    /\ last.cpu = 1
    /\ last.args = <<U64(5000000)>>
    /\ rtcDeadline[1] = U64(5000000)
    /\ rtcPop[1] = U64(5000007)
    /\ rtcDeadline[0] = EndOfAllTime
    /\ rtcPop[0] = Zero64

\* C16 as stated: rtc_timer_start leaves the deadline at EndOfAllTime, makes
\* no driver call, keeps the pop and the tuple and calls
\* timer_resync_deadlines; and rtclock_init, unless it halts, applies
\* rtc_config and then runs rtc_timer_start.
C16_RunsAtStartup ==
    [][ /\ last'.op = "rtc_timer_start" =>
             /\ rtcDeadline'[last'.cpu] = EndOfAllTime
             /\ last'.calls = <<"timer_resync_deadlines">>
             /\ rtcPop' = rtcPop
             /\ rnt' = rnt
        /\ (last'.op = "rtclock_init" /\ ~halted') =>
             /\ Len(last'.calls) >= 2
             /\ SubSeq(last'.calls, Len(last'.calls) - 1, Len(last'.calls))
                  = <<"rtc_config", "timer_resync_deadlines">>
             /\ rtcDeadline'[last'.cpu] = EndOfAllTime ]_vars

\* C16: rtc_timer_start and start-up, by build.  Without __DARLING__
\* rtc_timer_start sets the calling processor's deadline to EndOfAllTime and
\* rtclock_init, unless it halts, ends with rtc_config() followed by
\* rtc_timer_start().  With __DARLING__ rtc_timer_start writes no deadline
\* and rtclock_init calls nothing and changes nothing.  In both builds
\* rtc_timer_start makes no driver call, calls timer_resync_deadlines once
\* and keeps every pop, the other processor's deadline, the tuple and the
\* published tuple.
C16_TimerStartByBuild ==
    [][ /\ last'.op = "rtc_timer_start" =>
             /\ ~darling => rtcDeadline'[last'.cpu] = EndOfAllTime
             /\ darling => rtcDeadline' = rtcDeadline
             /\ \A c \in CPUS \ {last'.cpu} : rtcDeadline'[c] = rtcDeadline[c]
             /\ last'.calls = <<"timer_resync_deadlines">>
             /\ rtcPop' = rtcPop
             /\ rnt' = rnt
             /\ commpage' = commpage
        /\ (last'.op = "rtclock_init" /\ ~halted') =>
             /\ rtcPop' = rtcPop
             /\ rnt' = rnt
             /\ commpage' = commpage
             /\ darling =>
                  /\ last'.calls = <<>>
                  /\ rtcDeadline' = rtcDeadline
                  /\ gPEClockFrequencyInfo' = gPEClockFrequencyInfo
             /\ ~darling =>
                  /\ ~last'.intr
                  /\ Len(last'.calls) >= 2
                  /\ SubSeq(last'.calls, Len(last'.calls) - 1, Len(last'.calls))
                       = <<"rtc_config", "timer_resync_deadlines">>
                  /\ rtcDeadline'[last'.cpu] = EndOfAllTime ]_vars

\* rtc_timer_start has reset the deadline of a processor whose timer was
\* armed for 5,000,000 and achieved 5,000,007: the pop is still recorded
C16_Witness ==
    /\ last.op = "rtc_timer_start"
    /\ ~darling
    /\ last.calls = <<"timer_resync_deadlines">>
    /\ rtcDeadline[last.cpu] = EndOfAllTime
    /\ rtcPop[last.cpu] = U64(5000007)

\* C19: the timer interrupt forwards to timer_intr.  An rtclock_intr entered
\* at a preemption level above 0 with interrupts disabled calls timer_intr
\* exactly once, for 64-bit and for 32-bit saved states, with user_mode true
\* exactly when the low two bits of the saved code-segment selector are not
\* both zero and with the saved instruction pointer (eip zero-extended), and
\* changes neither the tuple, the published tuple nor any processor's
\* deadline or pop.
C19_InterruptForwards ==
    [][ (last'.op = "rtclock_intr" /\ last'.args[1] > 0 /\ ~last'.intr) =>
          LET tregs == last'.args[2]
          IN  /\ ~halted'
              /\ last'.calls = <<"timer_intr">>
              /\ timer_intr_call'.user_mode = (tregs.cs % 4 # 0)
              /\ timer_intr_call'.rip =
                   (IF tregs.is64 THEN tregs.ip ELSE tregs.ip \o <<0, 0>>)
              /\ rnt' = rnt
              /\ commpage' = commpage
              /\ rtcDeadline' = rtcDeadline
              /\ rtcPop' = rtcPop ]_vars

\* an interrupt taken in ring 1 (selector 9) of a 64-bit state, with a timer
\* armed, has been forwarded as user mode
C19_Witness ==
    /\ last.op = "rtclock_intr"
    /\ ~halted
    /\ last.args[2].is64
    /\ last.args[2].cs = 9
    /\ timer_intr_call.user_mode
    /\ timer_intr_call.rip = last.args[2].ip
    /\ rtcDeadline[0] = U64(5000000)

\* d * 1e9 / rate rounded toward zero, as a 96-bit word
ExactNanoseconds(d, rate) == WDiv(Mul64x32(d, U32(NSEC_PER_SEC)), rate)

\* C17: the calibration scenario and the accuracy of the conversion.
\* Calibrated at 2,000,000,000 Hz the tuple has shift 0 and scale 2^31 and
\* converts 2,000,000,000 cycles to exactly 1,000,000,000 ns.  For every
\* calibrated frequency and every delta d whose inflated value d * 2^shift
\* fits in 64 bits, the conversion is d * 1e9 / frequency up to the
\* truncation of the scale and of the result: never above the exact
\* quotient, and below its integer part by at most 1 + (d * 2^shift) / 2^32,
\* hence by at most 1 ns for a delta of up to 2^32 inflated cycles.
C17_CalibratedConversion ==
    booted =>
      /\ tscFreq = U64(2000000000) =>
           /\ rnt.shift = 0
           /\ rnt.scale = <<0, 32768>>
           /\ rtc_tsc_to_nanoseconds(U64(2000000000), rnt) = U64(NSEC_PER_SEC)
      /\ \A d \in SampleDeltas :
           LET wide  == Shl(Cast(d, 8), rnt.shift)
               dd    == Cast(wide, 4)
               rate  == Shl(tscFreq, rnt.shift)
               exact == ExactNanoseconds(dd, rate)
               conv  == Cast(rtc_tsc_to_nanoseconds(d, rnt), 6)
               slack == WAdd(W(1, 6), Cast(ShrLimbs(dd, 2), 6))
           IN  IsZero(ShrLimbs(wide, 4)) =>
                 /\ WLe(conv, exact)
                 /\ WLe(WSub(exact, conv), slack)
                 /\ IsZero(ShrLimbs(dd, 2)) => WLe(WSub(exact, conv), W(1, 6))

\* calibrated at 2 GHz: shift 0, scale 2^31, one second of cycles is 1e9 ns
C17_Witness ==
    /\ booted
    /\ last.op = "rtclock_early_init"
    /\ tscFreq = U64(2000000000)
    /\ rnt.shift = 0
    /\ rnt.scale = <<0, 32768>>
    /\ rtc_tsc_to_nanoseconds(U64(2000000000), rnt) = U64(NSEC_PER_SEC)

\* C18: only the calibration writes scale and shift.  Every step other than
\* rtclock_early_init (counter advance, read, rtc_clock_napped accepted or
\* rejected, rtc_clock_adjust, rtc_sleep_wakeup with its rtc_nanotime_init,
\* and each of them halting) leaves scale and shift as they were; a
\* completed rtclock_early_init stores the scale and shift of the measured
\* frequency and leaves ns_base = 0 and tsc_base = the counter value sampled
\* by that call.
C18_OnlyCalibratorScales ==
    [][ /\ last'.op # "rtclock_early_init" =>
             /\ rnt'.scale = rnt.scale
             /\ rnt'.shift = rnt.shift
        /\ (last'.op = "rtclock_early_init" /\ booted') =>
             LET t == Timescale(tscFreq, U64(SLOW_TSC_THRESHOLD))
             IN  /\ rnt'.scale = t.scale
                 /\ rnt'.shift = t.shift
                 /\ rnt'.ns_base = Zero64
                 /\ rnt'.tsc_base = last'.tsc
                 /\ last'.tsc = tsc' ]_vars

\* after a counter advance and a full reset to a non-zero base the tuple
\* still carries the scale of the 2 GHz calibration
C18_Witness ==
    /\ last.op = "rtc_sleep_wakeup"
    /\ ~halted
    /\ rnt.scale = <<0, 32768>>
    /\ rnt.shift = 0
    /\ rnt.ns_base # Zero64
    /\ rnt.tsc_base # tsc_at_boot

DelayOps == {"machine_delay_until", "machine_delay_until_test", "cpu_pause"}

\* the time the current tuple gives at the last value the counter takes
DelayHorizon ==
    rtc_nanotime_read_at(WAdd(tsc_at_boot, MulSmall(TickCycles, MaxTicks)), rnt)

\* C20: the busy-wait.  machine_delay_until returns only from a loop test
\* whose read of the absolute time is at or above the deadline, and every
\* such test returns; when the first test of a call reads a time at or above
\* the deadline the call returns without having paused; no step of the
\* busy-wait changes the tuple, the published tuple or any processor's
\* deadline or pop; and while the counter keeps advancing and the time does
\* not move backward, a call whose deadline the counter will reach
\* eventually returns.
C20_BusyWait ==
    /\ [](delay.pc = "returned" => WLe(delay.deadline, delay.now))
    /\ [][ /\ last'.op = "machine_delay_until_test" =>
                /\ delay'.now = rtc_nanotime_read_at(tsc, rnt)
                /\ (delay'.pc = "returned") <=> WLe(delay.deadline, delay'.now)
                /\ (~delay.paused /\ WLe(delay.deadline, delay'.now)) =>
                     (delay'.pc = "returned" /\ ~delay'.paused)
           /\ (delay.pc # "returned" /\ delay'.pc = "returned") =>
                last'.op = "machine_delay_until_test"
           /\ last'.op \in DelayOps =>
                /\ rnt' = rnt
                /\ commpage' = commpage
                /\ rtcDeadline' = rtcDeadline
                /\ rtcPop' = rtcPop ]_vars
    /\ (delay.pc = "test" /\ WLe(delay.deadline, DelayHorizon))
         ~> (delay.pc = "returned")

\* a call that paused while the time was below its deadline of 100 has
\* returned on reading exactly 100
C20_Witness ==
    /\ delay.pc = "returned"
    /\ delay.paused
    /\ delay.deadline = U64(100)
    /\ delay.now = U64(100)

====
